---- MODULE Spec2Model ----
(***************************************************************************)
(* The interactive ticket wizard of clubhouse-cli (src/src/index.ts):      *)
(* createTickets (the session loop), createSingleTicket (the question      *)
(* pipeline and the submission handler) and getAutoCompleteChoices (the    *)
(* choice resolver).                                                       *)
(*                                                                         *)
(* JavaScript strings are sequences of one-character strings.  A slot that *)
(* can hold values of several JavaScript types holds a tagged record:      *)
(* Undefined, Null, NaN, Str(chars), Num(n), Arr(elems), Obj(name).        *)
(***************************************************************************)
EXTENDS Integers, Sequences, FiniteSets, TLC

VARIABLES
  state,        \* the IClubhouseState handed to createTickets (the snapshot)
  idx,          \* the idx parameter of the running createTickets call
  pc,           \* where the session is
  qi,           \* index in questions of the prompt being asked
  defaults,     \* the default: fields of the questions array built for this iteration
  input,        \* what is typed in the prompt on display
  choices,      \* the options the autocomplete prompt on display offers
  error,        \* the violation message the prompt on display shows
  res,          \* the answers collected by inquirer.prompt(questions)
  inflight,     \* createStory requests sent and not yet answered by the API
  apiOutcome,   \* how the API answered the request of this iteration
  inner,        \* the promise createStory(...) returned, then the .then/.catch chain on it
  outer,        \* the promise createSingleTicket returned
  createdStory, \* the value the callback of createTickets receives
  doOneMore,    \* the answer to the last "Create another ticket" prompt
  banners,      \* the "Creating ticket #" banners printed, oldest first
  printed,      \* the lines printed since the last banner (banner excluded)
  clipboard,    \* the text on the system clipboard
  confirms,     \* the answers given to "Create another ticket", oldest first
  sent,         \* the iteration of every createStory request sent, oldest first
  created,      \* the iterations whose request the API turned into a story
  call,         \* the function of index.ts called on its own, with its arguments
  result        \* what that call returned

vars == <<state, idx, pc, qi, defaults, input, choices, error, res, inflight,
          apiOutcome, inner, outer, createdStory, doOneMore, banners, printed,
          clipboard, confirms, sent, created, call, result>>

(***************************************************************************)
(* Bounds of the model.                                                    *)
(***************************************************************************)
MaxIdx == 2
\* the longest candidate list getAutoCompleteChoices is called on
MaxListLen == 3
\* the longest text the validators are called on
MaxTextLen == 122
\* the most epics and the most sprints of a snapshot the questions are built from
MaxEpics == 2
MaxSprints == 2

(***************************************************************************)
(* JavaScript values.                                                      *)
(***************************************************************************)
Undefined == [t |-> "undefined"]
Null == [t |-> "null"]
NaN == [t |-> "NaN"]
Str(s) == [t |-> "string", s |-> s]
Num(n) == [t |-> "number", n |-> n]
Arr(a) == [t |-> "array", a |-> a]
Obj(n) == [t |-> "object", name |-> n]
Bool(b) == [t |-> "boolean", b |-> b]
True == Bool(TRUE)
False == Bool(FALSE)
Msg(text) == [t |-> "message", text |-> text]

isNullOrUndefined(v) == v = Null \/ v = Undefined

\* n copies of the character c
Rep(c, n) == [i \in 1..n |-> c]

UpperCase == <<"A","B","C","D","E","F","G","H","I","J","K","L","M",
               "N","O","P","Q","R","S","T","U","V","W","X","Y","Z">>
LowerCase == <<"a","b","c","d","e","f","g","h","i","j","k","l","m",
               "n","o","p","q","r","s","t","u","v","w","x","y","z">>

LowerChar(c) ==
  IF \E i \in 1..Len(UpperCase) : UpperCase[i] = c
  THEN LowerCase[CHOOSE i \in 1..Len(UpperCase) : UpperCase[i] = c]
  ELSE c

\* String.prototype.toLowerCase
toLowerCase(s) == [i \in 1..Len(s) |-> LowerChar(s[i])]

\* String.prototype.includes
includes(s, sub) ==
  \E i \in 0..(Len(s) - Len(sub)) : SubSeq(s, i + 1, i + Len(sub)) = sub

Digits == <<"0","1","2","3","4","5","6","7","8","9">>

RECURSIVE NatToString(_)
NatToString(n) ==
  IF n < 10 THEN <<Digits[n + 1]>>
  ELSE NatToString(n \div 10) \o <<Digits[(n % 10) + 1]>>

\* Number.prototype.toString of an integer
toString(n) == IF n < 0 THEN <<"-">> \o NatToString(-n) ELSE NatToString(n)

DigitValue(c, radix) ==
  IF \E d \in 0..(radix - 1) : Digits[d + 1] = c
  THEN CHOOSE d \in 0..(radix - 1) : Digits[d + 1] = c
  ELSE -1

RECURSIVE ParseDigits(_, _, _, _)
\* the longest run of digits of the radix from s[i] on, read as a number on top
\* of acc
ParseDigits(s, i, radix, acc) ==
  IF i > Len(s) \/ DigitValue(s[i], radix) < 0
  THEN acc
  ELSE ParseDigits(s, i + 1, radix, acc * radix + DigitValue(s[i], radix))

\* parseInt(string, radix) for radix <= 10: an optional sign, then the longest
\* run of digits of the radix; NaN when there is no digit
parseInt(v, radix) ==
  IF v.t # "string" THEN NaN
  ELSE LET s == v.s
           neg == Len(s) > 0 /\ s[1] = "-"
           from == IF Len(s) > 0 /\ (s[1] = "-" \/ s[1] = "+") THEN 2 ELSE 1
       IN IF from > Len(s) \/ DigitValue(s[from], radix) < 0
          THEN NaN
          ELSE IF neg THEN Num(-ParseDigits(s, from, radix, 0))
               ELSE Num(ParseDigits(s, from, radix, 0))

(***************************************************************************)
(* The workspace snapshots a session can start from.                       *)
(***************************************************************************)
Teams == << [id |-> 1, name |-> <<"C","o","r","e">>],
            [id |-> 2, name |-> <<"O","p","s">>] >>

Api == [id |-> 12, name |-> <<"A","p","i">>, team_id |-> 2]
Web == [id |-> 105, name |-> <<"W","e","b">>, team_id |-> 1]

\* the project lists the snapshot provider can return: in any order
ProjectLists == { <<Api, Web>>, <<Web, Api>> }

DefaultProjectIds == {12, 99}

Epics == << [id |-> 3, name |-> <<"A","u","t","h">>],
            [id |-> 40, name |-> <<"P","a","y">>] >>

Users == << [id |-> <<"u","1">>, profile |-> [name |-> <<"A","n","n">>]],
            [id |-> <<"u","2">>, profile |-> [name |-> <<"N","o","a">>]] >>

Sprints == << [name |-> <<"S","p","r","i","n","t"," ","1">>] >>

Snapshots ==
  { [projects |-> ps, epics |-> Epics, teams |-> Teams, users |-> Users,
     sprints |-> Sprints,
     configuration |-> [token |-> <<"t","o","k">>, defaultProjectId |-> d]] :
    ps \in ProjectLists, d \in DefaultProjectIds }

\* what the user can type in an autocomplete prompt
Queries == { Str(<<"w">>), Str(<<"N","O">>), Str(<<"z","z">>) }

\* what the user can enter in the title prompt and in the description editor
TitleInputs == { Undefined, Str(<<>>), Str(Rep("a", 4)), Str(<<"F","i","x"," ","L","o","g","i","n"," ","B","u","g">>),
                 Str(Rep("b", 120)), Str(Rep("b", 121)) }
DescriptionInputs == { Undefined, Str(<<>>), Str(Rep("a", 4)), Str(Rep("a", 5)) }
TextInputs(q) == IF q = "title" THEN TitleInputs ELSE DescriptionInputs

\* the ids the creation API can give a new story
StoryIds == {42}

(***************************************************************************)
(* getAutoCompleteChoices and the sources of the autocomplete prompts.     *)
(***************************************************************************)
\* as Matches, the input not lower-cased
MatchesInputAsTyped(item, in) == includes(toLowerCase(item.name), in.s)

\* item => item.name.toLowerCase().includes(input.toLowerCase())
Matches(item, in) == includes(toLowerCase(item.name), toLowerCase(in.s))

\* data.filter(item => ...): the matching items, in the order of data
FilterMatches(data, in) == SelectSeq(data, LAMBDA item : Matches(item, in))

\* as getAutoCompleteChoices, nothing offered until something is typed
getAutoCompleteChoicesEmptyUntilTyped(in, data) ==
  IF isNullOrUndefined(in) THEN <<>> ELSE FilterMatches(data, in)

getAutoCompleteChoices(in, data) ==
  IF isNullOrUndefined(in) THEN data ELSE FilterMatches(data, in)

\* where Array.prototype.sort puts p in the sorted list: after every element
\* that does not compare greater (the sort is stable)
RECURSIVE InsertByTeam(_, _)
InsertByTeam(sorted, p) ==
  IF sorted = <<>> THEN <<p>>
  ELSE IF Head(sorted).team_id - p.team_id > 0 THEN <<p>> \o sorted
       ELSE <<Head(sorted)>> \o InsertByTeam(Tail(sorted), p)

RECURSIVE SortByTeam(_)
\* projects.sort((p1, p2) => p1.team_id - p2.team_id)
SortByTeam(ps) ==
  IF ps = <<>> THEN <<>>
  ELSE InsertByTeam(SortByTeam(SubSeq(ps, 1, Len(ps) - 1)), ps[Len(ps)])

\* teams.find(team => team.id === id)
TeamOf(teams, id) == teams[CHOOSE i \in 1..Len(teams) : teams[i].id = id /\
                             \A j \in 1..(i - 1) : teams[j].id # id]

ProjectOption(project, teams) ==
  [name |-> project.name \o <<" ", "(">> \o TeamOf(teams, project.team_id).name \o <<")">>,
   value |-> Str(toString(project.id))]

\* the choices the project source builds from the (already sorted) projects
ProjectOptions(projects, teams) ==
  [i \in 1..Len(projects) |-> ProjectOption(projects[i], teams)]

\* as EpicOptions, a "No epic" option appended
EpicOptionsWithNoEpic(epics) ==
  [i \in 1..Len(epics) |-> [name |-> epics[i].name, value |-> Str(toString(epics[i].id))]]
  \o << [name |-> <<"N","o"," ","e","p","i","c">>, value |-> Null] >>

EpicOptions(epics) ==
  [i \in 1..Len(epics) |-> [name |-> epics[i].name, value |-> Str(toString(epics[i].id))]]

DoNotAssign == [name |-> <<"D","o"," ","n","o","t"," ","a","s","s","i","g","n">>,
                value |-> Null]

OwnerOptions(users) ==
  <<DoNotAssign>> \o
  [i \in 1..Len(users) |-> [name |-> users[i].profile.name, value |-> Str(users[i].id)]]

NoLabel == [name |-> <<"N","o"," ","L","a","b","e","l">>, value |-> Null]

\* as LabelOptions, "No Label" put first, as "Do not assign" is
LabelOptionsNoLabelFirst(sprints) ==
  <<NoLabel>> \o
  [i \in 1..Len(sprints) |-> [name |-> sprints[i].name, value |-> Obj(sprints[i].name)]]

LabelOptions(sprints) ==
  [i \in 1..Len(sprints) |-> [name |-> sprints[i].name, value |-> Obj(sprints[i].name)]]
  \o <<NoLabel>>

\* as questions, the labels question missing
questionsWithoutLabels == <<"project", "epic", "title", "description", "storyType", "owner">>

\* the questions of createSingleTicket, in the order inquirer asks them
questions == <<"project", "epic", "title", "description", "storyType", "owner", "labels">>

QuestionType(q) ==
  CASE q \in {"project", "epic", "owner", "labels"} -> "autocomplete"
    [] q = "title" -> "input"
    [] q = "description" -> "editor"
    [] q = "storyType" -> "list"

\* what st.projects is once the source of the question has run
ProjectsAfterSource(q, st) ==
  IF q = "project" THEN SortByTeam(st.projects) ELSE st.projects

\* what the source of an autocomplete question resolves to
Source(q, st, in) ==
  CASE q = "project" ->
         getAutoCompleteChoices(in, ProjectOptions(SortByTeam(st.projects), st.teams))
    [] q = "epic" -> getAutoCompleteChoices(in, EpicOptions(st.epics))
    [] q = "owner" -> getAutoCompleteChoices(in, OwnerOptions(st.users))
    [] q = "labels" -> getAutoCompleteChoices(in, LabelOptions(st.sprints))

\* Array.prototype.findIndex on the projects: 0-based, -1 when none matches
findIndex(projects, id) ==
  IF \E i \in 1..Len(projects) : projects[i].id = id
  THEN (CHOOSE i \in 1..Len(projects) :
          projects[i].id = id /\ \A j \in 1..(i - 1) : projects[j].id # id) - 1
  ELSE -1

\* the default: fields of the questions array, evaluated when the array is built
Defaults(st) ==
  [project |-> findIndex(st.projects, st.configuration.defaultProjectId),
   epic |-> Len(st.epics),
   labels |-> Len(st.sprints)]

StoryTypes == << <<"f","e","a","t","u","r","e">>, <<"b","u","g">>, <<"c","h","o","r","e">> >>

MinTitleLength == 5
MaxTitleLength == 120
MinDescriptionLength == 5

ValidateProject(v) ==
  IF isNullOrUndefined(v) THEN Msg("A story must be assigned to a project") ELSE True

\* as ValidateTitle, a title of 5 characters rejected
ValidateTitleFiveRejected(v) ==
  IF isNullOrUndefined(v) \/ Len(v.s) <= MinTitleLength
  THEN Msg("Title should be more than 5 characters long")
  ELSE IF Len(v.s) > MaxTitleLength
       THEN Msg("Title should not be longer than 120 characters")
       ELSE True

\* as ValidateTitle, the upper limit missing
ValidateTitleNoUpperLimit(v) ==
  IF isNullOrUndefined(v) \/ Len(v.s) < MinTitleLength
  THEN Msg("Title should be more than 5 characters long")
  ELSE True

ValidateTitle(v) ==
  IF isNullOrUndefined(v) \/ Len(v.s) < MinTitleLength
  THEN Msg("Title should be more than 5 characters long")
  ELSE IF Len(v.s) > MaxTitleLength
       THEN Msg("Title should not be longer than 120 characters")
       ELSE True

\* as ValidateDescription, with the upper limit of the title
ValidateDescriptionWithUpperLimit(v) ==
  IF isNullOrUndefined(v) \/ Len(v.s) < MinDescriptionLength
  THEN Msg("Description should be more than 5 characters long")
  ELSE IF Len(v.s) > MaxTitleLength
       THEN Msg("Description should not be longer than 120 characters")
       ELSE True

ValidateDescription(v) ==
  IF isNullOrUndefined(v) \/ Len(v.s) < MinDescriptionLength
  THEN Msg("Description should be more than 5 characters long")
  ELSE True

\* the validate: of a question; a question without one accepts every answer
Validate(q, v) ==
  CASE q = "project" -> ValidateProject(v)
    [] q = "title" -> ValidateTitle(v)
    [] q = "description" -> ValidateDescription(v)
    [] OTHER -> True

(***************************************************************************)
(* The submission handler.                                                 *)
(***************************************************************************)
\* as BuildRequest, project_id read from the epic answer
BuildRequestEpicAsProject(r) ==
  [name |-> r.title,
   description |-> r.description,
   owner_ids |-> IF isNullOrUndefined(r.owner) THEN Null ELSE Arr(<<r.owner>>),
   project_id |-> parseInt(r.epic, 10),
   epic_id |-> r.epic,
   labels |-> IF isNullOrUndefined(r.labels) THEN Null ELSE Arr(<<r.labels>>),
   story_type |-> r.storyType]

\* as BuildRequest, owner_ids without the test for the sentinel
BuildRequestOwnerUntested(r) ==
  [name |-> r.title,
   description |-> r.description,
   owner_ids |-> Arr(<<r.owner>>),
   project_id |-> parseInt(r.project, 10),
   epic_id |-> r.epic,
   labels |-> IF isNullOrUndefined(r.labels) THEN Null ELSE Arr(<<r.labels>>),
   story_type |-> r.storyType]

\* as BuildRequest, labels without the test for the sentinel
BuildRequestLabelsUntested(r) ==
  [name |-> r.title,
   description |-> r.description,
   owner_ids |-> IF isNullOrUndefined(r.owner) THEN Null ELSE Arr(<<r.owner>>),
   project_id |-> parseInt(r.project, 10),
   epic_id |-> r.epic,
   labels |-> Arr(<<r.labels>>),
   story_type |-> r.storyType]

\* the IStory createSingleTicket hands to createStory
BuildRequest(r) ==
  [name |-> r.title,
   description |-> r.description,
   owner_ids |-> IF isNullOrUndefined(r.owner) THEN Null ELSE Arr(<<r.owner>>),
   project_id |-> parseInt(r.project, 10),
   epic_id |-> r.epic,
   labels |-> IF isNullOrUndefined(r.labels) THEN Null ELSE Arr(<<r.labels>>),
   story_type |-> r.storyType]

SlugKeeps(c) ==
  \/ \E i \in 1..Len(UpperCase) : c = UpperCase[i] \/ c = LowerCase[i]
  \/ \E i \in 1..Len(Digits) : c = Digits[i]
  \/ c \in {"-", ".", "_", "~", " "}

\* the characters slug keeps
SlugStrip(s) == SelectSeq(s, SlugKeeps)

Trim(s) ==
  LET solid == {i \in 1..Len(s) : s[i] # " "}
  IN IF solid = {} THEN <<>>
     ELSE SubSeq(s, CHOOSE i \in solid : \A j \in solid : i <= j,
                    CHOOSE i \in solid : \A j \in solid : i >= j)

\* every run of spaces and dashes becomes one dash
SlugJoin(s) ==
  LET sep(i) == s[i] \in {" ", "-"}
      ends(i) == ~sep(i) \/ i = Len(s) \/ ~sep(i + 1)
      kept == SelectSeq([i \in 1..Len(s) |-> i], ends)
  IN [k \in 1..Len(kept) |-> IF sep(kept[k]) THEN "-" ELSE s[kept[k]]]

\* slug(name) of the slug package
slug(s) == SlugJoin(Trim(SlugStrip(s)))

GitCheckout == <<"g","i","t"," ","c","h","e","c","k","o","u","t"," ","-","b"," ">>

\* as GitCmd, the slug not lower-cased
GitCmdSlugAsIs(story) ==
  GitCheckout \o story.story_type \o <<"/","c","h">> \o toString(story.id)
  \o <<"/">> \o slug(story.name)

\* `git checkout -b ${story.story_type}/ch${id}/${storySlug}`
GitCmd(story) ==
  GitCheckout \o story.story_type \o <<"/","c","h">> \o toString(story.id)
  \o <<"/">> \o toLowerCase(slug(story.name))

\* the three console.info lines of the success handler
SuccessLines(story) ==
  << [line |-> "Successfully created a story with id", id |-> story.id],
     [line |-> "You can view your story at", id |-> story.id],
     [line |-> "To start working on this story (copied to clipboard): ",
      cmd |-> GitCmd(story)] >>

\* the two console.error lines of the catch handler
ErrorLines(err) ==
  << [line |-> "There was an error processing your request"],
     [line |-> "err.body", body |-> err.body] >>

\* the error createStory rejects with, and the one writeSync throws
ApiError == [body |-> Str(<<"4","2","2">>)]
ClipboardError == [body |-> Undefined]

\* no function has been called on its own
NoCall == [fn |-> "none"]

NoPromise == [st |-> "none", v |-> Undefined]
Pending == [st |-> "pending", v |-> Undefined]
Fulfilled(v) == [st |-> "fulfilled", v |-> v]
Rejected(e) == [st |-> "rejected", v |-> e]
Settled == [st |-> "settled", v |-> Undefined]

\* the names of the answers the submission handler reads
AnswerNames == {"project", "epic", "title", "description", "storyType", "owner", "labels"}

NoAnswers == [q \in AnswerNames |-> Undefined]

(***************************************************************************)
(* The session.                                                            *)
(***************************************************************************)
Init ==
  /\ state \in Snapshots
  /\ idx = 1
  /\ pc = "main"
  /\ qi = 1
  /\ defaults = Defaults(state)
  /\ input = Undefined
  /\ choices = <<>>
  /\ error = Undefined
  /\ res = NoAnswers
  /\ inflight = {}
  /\ apiOutcome = "none"
  /\ inner = NoPromise
  /\ outer = NoPromise
  /\ createdStory = Undefined
  /\ doOneMore = Undefined
  /\ banners = <<>>
  /\ printed = <<>>
  /\ clipboard = <<>>
  /\ confirms = <<>>
  /\ sent = <<>>
  /\ created = {}
  /\ call = NoCall
  /\ result = Undefined

\* the body of createTickets(state, i) up to the first suspension: the banner,
\* then createSingleTicket builds the questions and calls inquirer.prompt
CreateTicketsCall(i) ==
  /\ idx' = i
  /\ banners' = Append(banners, toString(i))
  /\ printed' = <<>>
  /\ defaults' = Defaults(state)
  /\ res' = NoAnswers
  /\ qi' = 1
  /\ pc' = "ask"
  /\ input' = Undefined
  /\ choices' = <<>>
  /\ error' = Undefined
  /\ apiOutcome' = "none"
  /\ inner' = NoPromise
  /\ outer' = Pending
  /\ createdStory' = Undefined
  /\ UNCHANGED <<state, inflight, clipboard, sent, created, call, result>>

\* main: getState(config).then(createTickets), idx taking its default
Start ==
  /\ pc = "main"
  /\ CreateTicketsCall(idx)
  /\ UNCHANGED <<doOneMore, confirms>>

ListOptions == [i \in 1..Len(StoryTypes) |-> [name |-> StoryTypes[i], value |-> Str(StoryTypes[i])]]

\* inquirer puts the next question on display; an autocomplete prompt calls its
\* source with no input
ShowPrompt ==
  /\ pc = "ask"
  /\ LET q == questions[qi] IN
       /\ choices' = CASE QuestionType(q) = "autocomplete" -> Source(q, state, Undefined)
                       [] QuestionType(q) = "list" -> ListOptions
                       [] OTHER -> <<>>
       /\ state' = [state EXCEPT !.projects = ProjectsAfterSource(q, state)]
  /\ pc' = "prompt"
  /\ input' = Undefined
  /\ error' = Undefined
  /\ UNCHANGED <<idx, qi, defaults, res, inflight, apiOutcome, inner, outer,
                 createdStory, doOneMore, banners, printed, clipboard, confirms,
                 sent, created, call, result>>

\* the user types in an autocomplete prompt: the source runs on the new input
Type(in) ==
  /\ pc = "prompt"
  /\ QuestionType(questions[qi]) = "autocomplete"
  /\ in # input
  /\ input' = in
  /\ choices' = Source(questions[qi], state, in)
  /\ state' = [state EXCEPT !.projects = ProjectsAfterSource(questions[qi], state)]
  /\ UNCHANGED <<idx, pc, qi, defaults, error, res, inflight, apiOutcome, inner,
                 outer, createdStory, doOneMore, banners, printed, clipboard,
                 confirms, sent, created, call, result>>

\* inquirer takes the answer v to the question on display: its validate decides
\* between the next question and the same question with the message
Answer(v) ==
  LET q == questions[qi]
      verdict == Validate(q, v)
  IN IF verdict = True
     THEN /\ res' = [res EXCEPT ![q] = v]
          /\ error' = Undefined
          /\ input' = Undefined
          /\ choices' = <<>>
          /\ IF qi < Len(questions)
             THEN qi' = qi + 1 /\ pc' = "ask"
             ELSE qi' = qi /\ pc' = "answered"
     ELSE /\ error' = verdict
          /\ UNCHANGED <<res, input, choices, qi, pc>>

\* the user picks the k-th option on display
Select(k) ==
  /\ pc = "prompt"
  /\ QuestionType(questions[qi]) \in {"autocomplete", "list"}
  /\ k \in 1..Len(choices)
  /\ Answer(choices[k].value)
  /\ UNCHANGED <<state, idx, defaults, inflight, apiOutcome, inner, outer,
                 createdStory, doOneMore, banners, printed, clipboard, confirms,
                 sent, created, call, result>>

\* the user enters the text v
EnterText(v) ==
  /\ pc = "prompt"
  /\ QuestionType(questions[qi]) \in {"input", "editor"}
  /\ v \in TextInputs(questions[qi])
  /\ Answer(v)
  /\ UNCHANGED <<state, idx, defaults, inflight, apiOutcome, inner, outer,
                 createdStory, doOneMore, banners, printed, clipboard, confirms,
                 sent, created, call, result>>

\* as Submit, the promise of createStory not returned: the promise of
\* createSingleTicket is fulfilled at once
SubmitNotReturned ==
  /\ pc = "answered"
  /\ inflight' = inflight \cup {[iter |-> idx, body |-> BuildRequest(res)]}
  /\ sent' = Append(sent, idx)
  /\ inner' = Pending
  /\ outer' = Fulfilled(Undefined)
  /\ pc' = "awaiting"
  /\ res' = NoAnswers
  /\ UNCHANGED <<state, idx, qi, defaults, input, choices, error, apiOutcome,
                 createdStory, doOneMore, banners, printed, clipboard,
                 confirms, created, call, result>>

\* .then((res) => { return createStory(token, {...}) ... }): the request goes
\* out, and res goes out of scope
Submit ==
  /\ pc = "answered"
  /\ inflight' = inflight \cup {[iter |-> idx, body |-> BuildRequest(res)]}
  /\ sent' = Append(sent, idx)
  /\ inner' = Pending
  /\ pc' = "awaiting"
  /\ res' = NoAnswers
  /\ UNCHANGED <<state, idx, qi, defaults, input, choices, error, apiOutcome,
                 outer, createdStory, doOneMore, banners, printed, clipboard,
                 confirms, created, call, result>>

\* the creation API accepts the request r and answers with the story
ApiAccept(r, id) ==
  /\ r \in inflight
  /\ inflight' = inflight \ {r}
  /\ created' = created \cup {r.iter}
  /\ apiOutcome' = "accepted"
  /\ inner' = Fulfilled([id |-> id, name |-> r.body.name.s,
                         story_type |-> r.body.story_type.s])
  /\ UNCHANGED <<state, idx, pc, qi, defaults, input, choices, error, res, outer,
                 createdStory, doOneMore, banners, printed, clipboard, confirms,
                 sent, call, result>>

\* the creation API rejects the request r
ApiReject(r) ==
  /\ r \in inflight
  /\ inflight' = inflight \ {r}
  /\ apiOutcome' = "rejected"
  /\ inner' = Rejected(ApiError)
  /\ UNCHANGED <<state, idx, pc, qi, defaults, input, choices, error, res, outer,
                 createdStory, doOneMore, banners, printed, clipboard, confirms,
                 sent, created, call, result>>

\* .then((story) => {...}): the success lines, then writeSync, which either
\* writes the clipboard or throws into the .catch that follows
ThenStory(written) ==
  /\ inner.st = "fulfilled"
  /\ printed' = printed \o SuccessLines(inner.v)
  /\ IF written
     THEN /\ clipboard' = GitCmd(inner.v)
          /\ inner' = Settled
          /\ outer' = Fulfilled(inner.v)
     ELSE /\ clipboard' = clipboard
          /\ inner' = Rejected(ClipboardError)
          /\ outer' = outer
  /\ UNCHANGED <<state, idx, pc, qi, defaults, input, choices, error, res,
                 inflight, apiOutcome, createdStory, doOneMore, banners, confirms,
                 sent, created, call, result>>

\* as CatchError, the error thrown again after the error lines
CatchErrorRethrown ==
  /\ inner.st = "rejected"
  /\ printed' = printed \o ErrorLines(inner.v)
  /\ inner' = Settled
  /\ outer' = Rejected(inner.v)
  /\ UNCHANGED <<state, idx, pc, qi, defaults, input, choices, error, res,
                 inflight, apiOutcome, createdStory, doOneMore, banners, clipboard,
                 confirms, sent, created, call, result>>

\* as CatchError, the request sent again
CatchErrorRetried ==
  /\ inner.st = "rejected"
  /\ printed' = printed \o ErrorLines(inner.v)
  /\ inner' = Pending
  /\ inflight' = inflight \cup {[iter |-> idx, body |-> BuildRequest(res)]}
  /\ sent' = Append(sent, idx)
  /\ UNCHANGED <<state, idx, pc, qi, defaults, input, choices, error, res,
                 apiOutcome, outer, createdStory, doOneMore, banners, clipboard,
                 confirms, created, call, result>>

\* .catch((err) => {...}): the error lines; the chain is fulfilled with undefined
CatchError ==
  /\ inner.st = "rejected"
  /\ printed' = printed \o ErrorLines(inner.v)
  /\ inner' = Settled
  /\ outer' = Fulfilled(Undefined)
  /\ UNCHANGED <<state, idx, pc, qi, defaults, input, choices, error, res,
                 inflight, apiOutcome, createdStory, doOneMore, banners, clipboard,
                 confirms, sent, created, call, result>>

\* createSingleTicket(state).then(createdStory => inquirer.prompt({doOneMore}))
ThenCreatedStory ==
  /\ pc = "awaiting"
  /\ outer.st = "fulfilled"
  /\ createdStory' = outer.v
  /\ pc' = "doOneMore"
  /\ UNCHANGED <<state, idx, qi, defaults, input, choices, error, res, inflight,
                 apiOutcome, inner, outer, doOneMore, banners, printed, clipboard,
                 confirms, sent, created, call, result>>

\* as AnswerDoOneMore, the answer not read: createTickets is called again
AnswerDoOneMoreIgnored(b) ==
  /\ pc = "doOneMore"
  /\ idx < MaxIdx
  /\ doOneMore' = Bool(b)
  /\ confirms' = Append(confirms, b)
  /\ CreateTicketsCall(idx + 1)

\* as AnswerDoOneMore, the counter skipping a number
AnswerDoOneMoreSkipping(b) ==
  /\ pc = "doOneMore"
  /\ b => idx < MaxIdx
  /\ doOneMore' = Bool(b)
  /\ confirms' = Append(confirms, b)
  /\ IF b
     THEN CreateTicketsCall(idx + 2)
     ELSE /\ pc' = "done"
          /\ UNCHANGED <<state, idx, qi, defaults, input, choices, error, res,
                         inflight, apiOutcome, inner, outer, createdStory, banners,
                         printed, clipboard, sent, created, call, result>>

\* .then((res) => { if (res.doOneMore) createTickets(state, idx + 1) })
AnswerDoOneMore(b) ==
  /\ pc = "doOneMore"
  /\ b => idx < MaxIdx
  /\ doOneMore' = Bool(b)
  /\ confirms' = Append(confirms, b)
  /\ IF b
     THEN CreateTicketsCall(idx + 1)
     ELSE /\ pc' = "done"
          /\ UNCHANGED <<state, idx, qi, defaults, input, choices, error, res,
                         inflight, apiOutcome, inner, outer, createdStory, banners,
                         printed, clipboard, sent, created, call, result>>

Next ==
  \/ Start
  \/ ShowPrompt
  \/ \E in \in Queries \cup {Undefined} : Type(in)
  \/ \E k \in 1..3 : Select(k)
  \/ \E v \in TitleInputs \cup DescriptionInputs : EnterText(v)
  \/ Submit
  \/ \E r \in inflight, id \in StoryIds : ApiAccept(r, id)
  \/ \E r \in inflight : ApiReject(r)
  \/ \E written \in BOOLEAN : ThenStory(written)
  \/ CatchError
  \/ ThenCreatedStory
  \/ \E b \in BOOLEAN : AnswerDoOneMore(b)

Spec == Init /\ [][Next]_vars

\* the promise callbacks are jobs of the event loop: one that is ready runs
FairSpec == Spec /\ WF_vars(CatchError) /\ WF_vars(ThenCreatedStory)

(***************************************************************************)
(* The functions of index.ts called on their own, on any arguments: one     *)
(* call in a behaviour.                                                    *)
(***************************************************************************)
sessionVars == <<state, idx, pc, qi, defaults, input, choices, error, res, inflight,
                 apiOutcome, inner, outer, createdStory, doOneMore, banners,
                 printed, clipboard, confirms, sent, created>>

\* the options the candidate lists are made of
OptionPool ==
  { DoNotAssign, NoLabel, ProjectOption(Web, Teams),
    [name |-> <<"N","o","a">>, value |-> Str(<<"u","2">>)] }

CandidateLists == UNION { [1..n -> OptionPool] : n \in 0..MaxListLen }

QueryArgs == {Undefined, Null, Str(<<>>)} \cup Queries

TextArgs == {Undefined, Null} \cup { Str(Rep("a", n)) : n \in 0..MaxTextLen }

EpicList(n) ==
  [i \in 1..n |-> [id |-> 3 + 37 * (i - 1), name |-> <<"E","p","i","c"," ">> \o toString(i)]]

SprintList(n) ==
  [i \in 1..n |-> [name |-> <<"S","p","r","i","n","t"," ">> \o toString(i)]]

\* snapshots with any number of epics and sprints, none included
QuestionSnapshots ==
  { [projects |-> ps, epics |-> EpicList(e), teams |-> Teams, users |-> Users,
     sprints |-> SprintList(l),
     configuration |-> [token |-> <<"t","o","k">>, defaultProjectId |-> 12]] :
    ps \in ProjectLists, e \in 0..MaxEpics, l \in 0..MaxSprints }

\* getAutoCompleteChoices(in, data): a promise resolved with the choices
CallGetAutoCompleteChoices(in, data) ==
  /\ call = NoCall
  /\ call' = [fn |-> "getAutoCompleteChoices", input |-> in, data |-> data]
  /\ result' = Fulfilled(getAutoCompleteChoices(in, data))
  /\ UNCHANGED sessionVars

\* the validate of the title question on v
CallValidateTitle(v) ==
  /\ call = NoCall
  /\ call' = [fn |-> "title.validate", arg |-> v]
  /\ result' = ValidateTitle(v)
  /\ UNCHANGED sessionVars

\* the validate of the description question on v
CallValidateDescription(v) ==
  /\ call = NoCall
  /\ call' = [fn |-> "description.validate", arg |-> v]
  /\ result' = ValidateDescription(v)
  /\ UNCHANGED sessionVars

\* createSingleTicket(st) builds the questions: their defaults, and what the
\* sources of the epic and labels questions resolve to with no input
CallQuestions(st) ==
  /\ call = NoCall
  /\ call' = [fn |-> "questions", state |-> st]
  /\ result' = [default |-> Defaults(st),
                epic |-> Source("epic", st, Undefined),
                labels |-> Source("labels", st, Undefined)]
  /\ UNCHANGED sessionVars

FunctionNext ==
  \/ \E in \in QueryArgs, data \in CandidateLists : CallGetAutoCompleteChoices(in, data)
  \/ \E v \in TextArgs : CallValidateTitle(v)
  \/ \E v \in TextArgs : CallValidateDescription(v)
  \/ \E st \in QuestionSnapshots : CallQuestions(st)

FunctionSpec == Init /\ [][FunctionNext]_vars

(***************************************************************************)
(* The claims.                                                             *)
(***************************************************************************)
PromptOnDisplay == pc \in {"ask", "prompt", "doOneMore"}

\* C1: at most one creation request is in flight, and while the request of
\* iteration n is unanswered no banner of iteration n+1 has been printed and no
\* prompt (a question of the pipeline or "Create another ticket") is on display.
C1_OneRequestInFlight ==
  /\ Cardinality(inflight) <= 1
  /\ \A r \in inflight :
       /\ r.iter = idx
       /\ Len(banners) = r.iter
       /\ ~PromptOnDisplay
       /\ pc = "awaiting"

C1_Witness == inflight # {} /\ idx = 2 /\ created = {}

\* C2: while a question of the iteration is pending no request of the iteration
\* has been sent, and a request is sent only from answers to all seven questions
\* that their validators accept.
C2_RequestAfterAllAnswers ==
  /\ [](pc \in {"ask", "prompt"} =>
          Len(sent) = idx - 1 /\ \A r \in inflight : r.iter # idx)
  /\ [][Len(sent') > Len(sent) =>
          \A q \in AnswerNames : res[q] # Undefined /\ Validate(q, res[q]) = True]_vars

C2_Witness == pc = "prompt" /\ questions[qi] = "labels" /\ idx = 2 /\ Len(sent) = 1

\* C3: once the API has rejected the request of iteration n, the promise of the
\* single-ticket flow is never rejected, it yields undefined, and the "Create
\* another ticket" prompt of iteration n comes on display.
C3_RejectionAbsorbed ==
  /\ [](apiOutcome = "rejected" =>
          /\ outer.st # "rejected"
          /\ outer.st = "fulfilled" => outer.v = Undefined
          /\ pc = "doOneMore" => createdStory = Undefined)
  /\ \A n \in 1..MaxIdx :
       (apiOutcome = "rejected" /\ idx = n /\ pc = "awaiting")
         ~> (pc = "doOneMore" /\ idx = n /\ createdStory = Undefined)

C3_Witness == apiOutcome = "rejected" /\ pc = "doOneMore" /\ createdStory = Undefined

\* C4: after a no to the first "Create another ticket" exactly one request has
\* been sent, the session is over and nothing changes any more.
C4_DeclineEndsSession ==
  /\ [](confirms = <<FALSE>> => pc = "done" /\ Len(sent) = 1 /\ Len(banners) = 1)
  /\ [][confirms = <<FALSE>> => UNCHANGED vars]_vars

C4_Witness == confirms = <<FALSE>> /\ pc = "done"

\* the number of yes answers to "Create another ticket"
Yeses == Cardinality({i \in DOMAIN confirms : confirms[i]})

\* C5: idx is 1 plus the number of yes answers, and the banners printed are
\* 1, 2, ..., idx in this order.
C5_CounterCountsYeses ==
  /\ idx = 1 + Yeses
  /\ pc = "main" => banners = <<>>
  /\ pc # "main" => banners = [i \in 1..idx |-> toString(i)]

C5_Witness == idx = 2 /\ banners = << <<"1">>, <<"2">> >> /\ created = {} /\ Len(sent) = 1

\* C6: the requests sent are one per iteration, in order: their number is idx-1
\* or idx, it is idx once the flow of the iteration has completed, and every
\* story of the API comes from one of them.
C6_OneRequestPerIteration ==
  /\ Len(sent) \in {idx - 1, idx}
  /\ \A i \in DOMAIN sent : sent[i] = i
  /\ pc \in {"doOneMore", "done"} => Len(sent) = idx
  /\ created \subseteq {sent[i] : i \in DOMAIN sent}

C6_Witness == apiOutcome = "rejected" /\ pc = "doOneMore" /\ idx = 2 /\ Len(sent) = 2

\* C7: no step of the session changes the snapshot.
C7_SnapshotNeverChanges == [][state' = state]_vars

HasDefaultProject ==
  \E i \in 1..Len(state.projects) :
    state.projects[i].id = state.configuration.defaultProjectId

\* C8: when the snapshot has the configured default project, the option at the
\* default index of the project prompt with nothing typed is that project.
C8_DefaultIsConfiguredProject ==
  (pc = "prompt" /\ questions[qi] = "project" /\ input = Undefined /\ HasDefaultProject)
    => /\ defaults.project + 1 \in 1..Len(choices)
       /\ choices[defaults.project + 1].value
            = Str(toString(state.configuration.defaultProjectId))

\* C9: the project_id of every request sent is a number, the id of a project of
\* the snapshot, namely of the project whose option value was the project
\* answer; its epic_id is the epic answer.
C9_ProjectIdOfSelectedProject ==
  /\ [](\A r \in inflight :
          /\ r.body.project_id.t = "number"
          /\ \E i \in 1..Len(state.projects) :
               state.projects[i].id = r.body.project_id.n)
  /\ [][\A r \in inflight' \ inflight :
          /\ \E i \in 1..Len(state.projects) :
               /\ res.project = Str(toString(state.projects[i].id))
               /\ r.body.project_id = Num(state.projects[i].id)
          /\ r.body.epic_id = res.epic
          /\ \E i \in 1..Len(state.epics) :
               r.body.epic_id = Str(toString(state.epics[i].id))]_vars

C9_Witness ==
  \E r \in inflight :
    r.body.project_id = Num(105) /\ r.body.epic_id = Str(<<"4","0">>) /\ idx = 2

\* C10: every request sent has a name of 5 to 120 characters, a description of
\* at least 5 characters and a story_type among feature, bug and chore.
C10_RequestFieldsValid ==
  \A r \in inflight :
    /\ r.body.name.t = "string"
    /\ Len(r.body.name.s) >= 5
    /\ Len(r.body.name.s) <= 120
    /\ r.body.description.t = "string"
    /\ Len(r.body.description.s) >= 5
    /\ r.body.story_type.t = "string"
    /\ \E i \in 1..Len(StoryTypes) : r.body.story_type.s = StoryTypes[i]

C10_Witness ==
  \E r \in inflight : Len(r.body.name.s) = 120 /\ idx = 2

\* the prompt of question q is on display with nothing typed
ShownUntyped(q) == pc = "prompt" /\ questions[qi] = q /\ input = Undefined

\* C11: "Do not assign" is the first option of the owner prompt and carries
\* null, the other options carry the users' ids; the owner_ids of a request is
\* null exactly when the owner answer is null, and for a user's id it is the
\* array of that one id.
C11_OwnerIdsNullOrOneUser ==
  /\ [](ShownUntyped("owner") =>
          /\ Len(choices) = Len(state.users) + 1
          /\ choices[1].name = <<"D","o"," ","n","o","t"," ","a","s","s","i","g","n">>
          /\ choices[1].value = Null
          /\ \A i \in 1..Len(state.users) : choices[i + 1].value = Str(state.users[i].id))
  /\ [][\A r \in inflight' \ inflight :
          /\ r.body.owner_ids = Null <=> res.owner = Null
          /\ res.owner # Null =>
               /\ \E i \in 1..Len(state.users) : res.owner = Str(state.users[i].id)
               /\ r.body.owner_ids.t = "array"
               /\ r.body.owner_ids.a = <<res.owner>>]_vars

C11_Witness ==
  \E r \in inflight : r.body.owner_ids = Arr(<< Str(<<"u","2">>) >>) /\ idx = 2

\* C12: "No Label" is the last option of the label prompt and carries null, the
\* other options carry {name} of the sprints; the labels of a request is null
\* exactly when the label answer is null, and for a sprint it is the array of
\* that one {name}.
C12_LabelsNullOrOneSprint ==
  /\ [](ShownUntyped("labels") =>
          /\ Len(choices) = Len(state.sprints) + 1
          /\ choices[Len(choices)].name = <<"N","o"," ","L","a","b","e","l">>
          /\ choices[Len(choices)].value = Null
          /\ \A i \in 1..Len(state.sprints) :
               choices[i].value = [t |-> "object", name |-> state.sprints[i].name])
  /\ [][\A r \in inflight' \ inflight :
          /\ r.body.labels = Null <=> res.labels = Null
          /\ res.labels # Null =>
               /\ \E i \in 1..Len(state.sprints) :
                    res.labels = [t |-> "object", name |-> state.sprints[i].name]
               /\ r.body.labels.t = "array"
               /\ r.body.labels.a = <<res.labels>>]_vars

C12_Witness ==
  \E r \in inflight :
    /\ r.body.labels = Arr(<< Obj(<<"S","p","r","i","n","t"," ","1">>) >>)
    /\ r.body.owner_ids = Null
    /\ idx = 2

ErrorNoticePrinted ==
  \E i \in 1..Len(printed) :
    printed[i].line = "There was an error processing your request"

\* C13: when the API has accepted the request, the flow yields the story and
\* the success lines are printed, whatever the clipboard write did; the error
\* notice is printed only in an iteration whose request the API rejected.
C13_ClipboardDoesNotGate ==
  /\ (apiOutcome = "accepted" /\ pc \in {"doOneMore", "done"}) =>
       /\ createdStory # Undefined
       /\ Len(printed) >= 3
       /\ printed[1].line = "Successfully created a story with id"
  /\ ErrorNoticePrinted => apiOutcome = "rejected"

\* C14: getAutoCompleteChoices with an absent input (undefined or null)
\* resolves to the candidate list itself: same options, same order.
C14_AbsentQueryKeepsList ==
  (call.fn = "getAutoCompleteChoices" /\ (call.input = Undefined \/ call.input = Null))
    => result.st = "fulfilled" /\ result.v = call.data

C14_Witness ==
  /\ call.fn = "getAutoCompleteChoices"
  /\ call.input = Null
  /\ call.data = <<NoLabel, DoNotAssign, NoLabel>>
  /\ result.v = <<NoLabel, DoNotAssign, NoLabel>>

\* the places in L of the options whose name contains q, both in lower case
MatchingPlaces(L, q) ==
  {i \in 1..Len(L) : includes(toLowerCase(L[i].name), toLowerCase(q))}

\* C15: getAutoCompleteChoices with a present input q resolves to the options
\* of the list whose name contains q when both are lower-cased, all of them and
\* only them, in the order of the list.
C15_PresentQueryFilters ==
  (call.fn = "getAutoCompleteChoices" /\ call.input.t = "string") =>
    LET L == call.data
        M == MatchingPlaces(L, call.input.s)
        r == result.v
    IN /\ result.st = "fulfilled"
       /\ Len(r) = Cardinality(M)
       /\ \A k \in 1..Len(r) :
            r[k] = L[CHOOSE i \in M : Cardinality({j \in M : j < i}) = k - 1]

C15_Witness ==
  /\ call.fn = "getAutoCompleteChoices"
  /\ call.input = Str(<<"N","O">>)
  /\ call.data = <<NoLabel, ProjectOption(Web, Teams), DoNotAssign>>
  /\ result.v = <<NoLabel, DoNotAssign>>

\* C16: the title validator returns true exactly for the texts of 5 to 120
\* characters, and a message for an absent input and every other length.
C16_TitleValidator ==
  call.fn = "title.validate" =>
    LET accepted == call.arg.t = "string" /\ Len(call.arg.s) >= 5 /\ Len(call.arg.s) <= 120
    IN /\ result = [t |-> "boolean", b |-> TRUE] <=> accepted
       /\ ~accepted => result.t = "message"

C16_Witness ==
  /\ call.fn = "title.validate"
  /\ call.arg.t = "string"
  /\ Len(call.arg.s) = 121
  /\ result.t = "message"

\* C17: the description validator returns true exactly for the texts of at
\* least 5 characters, however long, and a message for an absent input and
\* every shorter text.
C17_DescriptionValidator ==
  call.fn = "description.validate" =>
    LET accepted == call.arg.t = "string" /\ Len(call.arg.s) >= 5
    IN /\ result = [t |-> "boolean", b |-> TRUE] <=> accepted
       /\ ~accepted => result.t = "message"

C17_Witness ==
  /\ call.fn = "description.validate"
  /\ call.arg.t = "string"
  /\ Len(call.arg.s) = 121
  /\ result = [t |-> "boolean", b |-> TRUE]

\* the success handler has run to its end on the story the API returned
StoryHandled == inner = Settled /\ outer.st = "fulfilled" /\ outer.v # Undefined

FixLoginBug == [id |-> 42, name |-> <<"F","i","x"," ","L","o","g","i","n"," ","B","u","g">>, story_type |-> <<"b","u","g">>]

FixLoginBugCmd ==
  <<"g","i","t"," ","c","h","e","c","k","o","u","t"," ","-","b"," ">>
  \o <<"b","u","g","/","c","h","4","2","/","f","i","x","-","l","o","g","i","n","-","b","u","g">>

\* C18: once the success handler has run on the story the API returned, the
\* command printed is "git checkout -b <story_type>/ch<id>/<slug>" with the
\* story's type and id and the lower-cased slug of the story's name, and the
\* clipboard holds the command printed; for {Fix Login Bug, bug, 42} it is
\* "git checkout -b bug/ch42/fix-login-bug".
C18_BranchCommand ==
  StoryHandled =>
    LET story == outer.v IN
      /\ Len(printed) = 3
      /\ printed[3].cmd =
           <<"g","i","t"," ","c","h","e","c","k","o","u","t"," ","-","b"," ">> \o story.story_type
           \o <<"/","c","h">> \o toString(story.id) \o <<"/">>
           \o toLowerCase(slug(story.name))
      /\ clipboard = printed[3].cmd
      /\ story = FixLoginBug => clipboard = FixLoginBugCmd

C18_Witness ==
  /\ pc = "doOneMore"
  /\ createdStory = FixLoginBug
  /\ clipboard = FixLoginBugCmd
  /\ idx = 2

\* C19: for every snapshot the options of the label prompt with nothing typed
\* are one per sprint, in snapshot order, then "No Label"; the default index,
\* the number of sprints, is the (0-based) place of "No Label", whose value is
\* null and gives a request with labels = null.
C19_LabelDefaultIsNoLabel ==
  call.fn = "questions" =>
    LET sprints == call.state.sprints
        opts == result.labels
        d == result.default.labels
    IN /\ d = Len(sprints)
       /\ Len(opts) = Len(sprints) + 1
       /\ \A i \in 1..Len(sprints) :
            opts[i] = [name |-> sprints[i].name,
                       value |-> [t |-> "object", name |-> sprints[i].name]]
       /\ opts[d + 1].name = <<"N","o"," ","L","a","b","e","l">>
       /\ opts[d + 1].value = Null
       /\ BuildRequest([NoAnswers EXCEPT !.labels = opts[d + 1].value]).labels = Null

C19_Witness ==
  /\ call.fn = "questions"
  /\ Len(call.state.sprints) = 2
  /\ result.default.labels = 2
  /\ result.labels[3] = NoLabel

\* C20: for every snapshot, the empty epic list included, the options of the
\* epic prompt with nothing typed are one per epic, in snapshot order, with
\* the id as a string for value and nothing appended; the default index, the
\* number of epics, is no (0-based) index into them.
C20_EpicDefaultOutOfRange ==
  call.fn = "questions" =>
    LET epics == call.state.epics
        opts == result.epic
        d == result.default.epic
    IN /\ Len(opts) = Len(epics)
       /\ \A i \in 1..Len(epics) :
            opts[i] = [name |-> epics[i].name, value |-> Str(toString(epics[i].id))]
       /\ d = Len(epics)
       /\ d \notin 0..(Len(opts) - 1)

C20_Witness ==
  /\ call.fn = "questions"
  /\ call.state.epics = <<>>
  /\ result.epic = <<>>
  /\ result.default.epic = 0
====
